---- MODULE Spec2Model ----
(***************************************************************************)
(* Model of src/v1.js: a WebSocket-to-TCP tunnelling relay.                *)
(*                                                                         *)
(* One request is modelled from the moment fetch() is entered.  Every      *)
(* action is one run-to-completion step of the single-threaded event loop: *)
(* the synchronous part of fetch() up to its first await, the continuation *)
(* after a socket's `opened` promise settles, one event listener call, or  *)
(* one step of a pipeTo() forwarding loop.                                 *)
(*                                                                         *)
(* Bytes are integers 0..255, byte arrays are sequences (index i of the    *)
(* source is element i+1 here), text is a sequence of code points, and a   *)
(* header value is a sequence of one-character strings.                    *)
(***************************************************************************)
EXTENDS Integers, Sequences, FiniteSets, TLC

(***************************************************************************)
(* Bounds of the model                                                     *)
(***************************************************************************)
\* longest address-and-trailing section generated after the family byte
MaxBody == 18
\* client messages delivered in one session
MaxMsgs == 2
\* chunks the destination sends in one session
MaxChunks == 2

(***************************************************************************)
(* Program constants (src/v1.js:4-9) and JavaScript values                 *)
(***************************************************************************)
UUID == <<85, 217, 236, 56, 27, 138, 69, 75, 152, 26, 106, 207, 232, 245, 109, 140>>
\* 'sjc.o00o.ooo' as code points
PROXY_HOST == <<115, 106, 99, 46, 111, 48, 48, 111, 46, 111, 111, 111>>
PROXY_PORT == 443
ATYPE_IPV4 == 1
ATYPE_DOMAIN == 2
ATYPE_IPV6 == 3
\* the value of an out-of-range typed-array read (JavaScript undefined)
Undefined == -1
\* the result of arithmetic on undefined (JavaScript NaN)
NaN == -2
\* the minimum handshake length checked by fetch
MinLength == 18

Min(a, b) == IF a < b THEN a ELSE b

(***************************************************************************)
(* Text helpers: the strings the template literals produce                 *)
(***************************************************************************)
\* "undefined", what `${undefined}` renders
UndefinedText == <<117, 110, 100, 101, 102, 105, 110, 101, 100>>

RECURSIVE ToDigits(_, _)
\* Number.prototype.toString(radix) for a non-negative integer
ToDigits(n, radix) ==
  LET d == n % radix
      c == IF d < 10 THEN 48 + d ELSE 87 + d
  IN IF n < radix THEN <<c>> ELSE ToDigits(n \div radix, radix) \o <<c>>

\* `${x}` for a byte or undefined
ToText(x) == IF x = Undefined THEN UndefinedText ELSE ToDigits(x, 10)

\* TextDecoder.decode on the bytes the model generates: an ASCII byte is its
\* code point, a lone byte >= 0x80 decodes to U+FFFD
Utf8Decode(bytes) == [i \in 1..Len(bytes) |-> IF bytes[i] < 128 THEN bytes[i] ELSE 65533]

RECURSIVE Utf8Encode(_)
\* TextEncoder.encode for code points of the basic plane
Utf8Encode(text) ==
  IF text = <<>> THEN <<>>
  ELSE LET c == Head(text)
       IN (IF c < 128 THEN <<c>>
           ELSE IF c < 2048 THEN <<192 + (c \div 64), 128 + (c % 64)>>
           ELSE <<224 + (c \div 4096), 128 + ((c \div 64) % 64), 128 + (c % 64)>>)
          \o Utf8Encode(Tail(text))

(***************************************************************************)
(* decodeBase64 (src/v1.js:19-25)                                          *)
(***************************************************************************)
B64 == <<"A","B","C","D","E","F","G","H","I","J","K","L","M","N","O","P",
         "Q","R","S","T","U","V","W","X","Y","Z","a","b","c","d","e","f",
         "g","h","i","j","k","l","m","n","o","p","q","r","s","t","u","v",
         "w","x","y","z","0","1","2","3","4","5","6","7","8","9","+","/">>

B64Set == {B64[i] : i \in 1..64}

Sextet(c) == (CHOOSE i \in 1..64 : B64[i] = c) - 1

\* str.replace(/-/g, '+').replace(/_/g, '/')
UrlToStd(str) ==
  [i \in 1..Len(str) |-> IF str[i] = "-" THEN "+" ELSE IF str[i] = "_" THEN "/" ELSE str[i]]

IsB64Char(c) == c \in B64Set
NotSpace(c) == c /= " "

\* atob: the forgiving-base64 decode.  ok = FALSE where atob throws.
Atob(str) ==
  LET s1 == SelectSeq(str, NotSpace)
      n1 == Len(s1)
      pad == IF n1 % 4 = 0 /\ n1 > 0 /\ s1[n1] = "="
             THEN (IF s1[n1 - 1] = "=" THEN 2 ELSE 1)
             ELSE 0
      s2 == SubSeq(s1, 1, n1 - pad)
      n2 == Len(s2)
      bad == n2 % 4 = 1 \/ SelectSeq(s2, IsB64Char) /= s2
      v(i) == Sextet(s2[i])
      nb == (n2 * 6) \div 8
      byte(k) ==
        LET g == 4 * (k \div 3)
        IN CASE k % 3 = 0 -> v(g + 1) * 4 + v(g + 2) \div 16
             [] k % 3 = 1 -> (v(g + 2) % 16) * 16 + v(g + 3) \div 4
             [] OTHER     -> (v(g + 3) % 4) * 64 + v(g + 4)
  IN IF bad THEN [ok |-> FALSE, bytes |-> <<>>]
     ELSE [ok |-> TRUE, bytes |-> [k \in 1..nb |-> byte(k - 1)]]

\* decodeBase64: atob's characters copied into a Uint8Array
decodeBase64(str) == Atob(UrlToStd(str))

(***************************************************************************)
(* verifyUUID (src/v1.js:28-33) and parseAddress (src/v1.js:36-57)         *)
(***************************************************************************)
\* data[i] of a Uint8Array: undefined outside 0..length-1
At(data, i) == IF i >= 0 /\ i < Len(data) THEN data[i + 1] ELSE Undefined

\* data.subarray(begin, end) for begin >= 0; a NaN end converts to 0
Subarray(data, begin, end) ==
  LET b == Min(begin, Len(data))
      e == IF end = NaN THEN 0 ELSE Min(end, Len(data))
  IN IF e > b THEN SubSeq(data, b + 1, e) ELSE <<>>

\* the indices of the bytes a subarray view exposes to its reader
SubarrayIdx(data, begin, end) ==
  LET b == Min(begin, Len(data))
      e == IF end = NaN THEN 0 ELSE Min(end, Len(data))
  IN b .. (e - 1)

\* verifyUUID with the comparison of data[16] left out
verifyUUID_First15(data) == \A i \in 1..15 : At(data, i) = UUID[i]

verifyUUID(data) == \A i \in 1..16 : At(data, i) = UUID[i]

\* DataView.getUint16(k) over the 16 bytes at base
GetUint16(data, base, k) == At(data, base + k) * 256 + At(data, base + k + 1)

Colon == <<58>>
Dot == <<46>>

IPv6Text(data, base) ==
  LET g(k) == ToDigits(GetUint16(data, base, k), 16)
  IN g(0) \o Colon \o g(2) \o Colon \o g(4) \o Colon \o g(6) \o Colon \o
     g(8) \o Colon \o g(10) \o Colon \o g(12) \o Colon \o g(14)

IPv4Text(data, base) ==
  ToText(At(data, base)) \o Dot \o ToText(At(data, base + 1)) \o Dot \o
  ToText(At(data, base + 2)) \o Dot \o ToText(At(data, base + 3))

\* The three branches of parseAddress(data, offset): the descriptor, and in
\* `reads` the indices of data the branch reads (data[offset + 3], the family
\* byte, is read before the branch is chosen).

\* the domain branch decoding from the length byte on: subarray(base, end)
DomainAddress_FromLengthByte(data, offset) ==
  LET base == offset + 4
      len == At(data, base)
      end == IF len = Undefined THEN NaN ELSE base + 1 + len
  IN [host |-> Utf8Decode(Subarray(data, base, end)),
      end |-> end,
      ok |-> end /= NaN /\ end <= Len(data),
      reads |-> {offset + 3, base} \cup SubarrayIdx(data, base, end)]

\* ATYPE_DOMAIN (src/v1.js:40-44): a length byte beyond the array reads as
\* undefined, end is then NaN, and NaN <= data.length is false
DomainAddress(data, offset) ==
  LET base == offset + 4
      len == At(data, base)
      end == IF len = Undefined THEN NaN ELSE base + 1 + len
  IN [host |-> Utf8Decode(Subarray(data, base + 1, end)),
      end |-> end,
      ok |-> end /= NaN /\ end <= Len(data),
      reads |-> {offset + 3, base} \cup SubarrayIdx(data, base + 1, end)]

\* the IPv4 branch reporting ok without comparing end with data.length
IPv4Address_Unchecked(data, offset) ==
  LET base == offset + 4
  IN [host |-> IPv4Text(data, base), end |-> base + 4, ok |-> TRUE,
      reads |-> {offset + 3} \cup (base .. base + 3)]

\* ATYPE_IPV4 (src/v1.js:45-48): the four octets are read into the template
\* literal before end is compared with data.length
IPv4Address(data, offset) ==
  LET base == offset + 4
      end == base + 4
  IN [host |-> IPv4Text(data, base),
      end |-> end,
      ok |-> end <= Len(data),
      reads |-> {offset + 3} \cup (base .. base + 3)]

\* ATYPE_IPV6 (src/v1.js:49-55): end is checked before the DataView is made
IPv6Address(data, offset) ==
  LET base == offset + 4
      end == base + 16
  IN IF end > Len(data)
     THEN [host |-> <<>>, end |-> 0, ok |-> FALSE, reads |-> {offset + 3}]
     ELSE [host |-> IPv6Text(data, base), end |-> end, ok |-> TRUE,
           reads |-> {offset + 3} \cup (base .. base + 15)]

parseAddress(data, offset) ==
  LET atype == At(data, offset + 3)
  IN IF atype = ATYPE_DOMAIN THEN DomainAddress(data, offset)
     ELSE IF atype = ATYPE_IPV4 THEN IPv4Address(data, offset)
     ELSE IF atype = ATYPE_IPV6 THEN IPv6Address(data, offset)
     ELSE [host |-> <<>>, end |-> 0, ok |-> FALSE, reads |-> {offset + 3}]

\* the descriptor of a request rejected before parseAddress is called
NoAddr == [host |-> <<>>, end |-> 0, ok |-> FALSE, reads |-> {}]

\* fetch's checks with one of them changed: the length check left out
\* (checkLen false), the header after addrOffset required to have `need`
\* bytes, addr.ok ignored (checkOk false)
HandshakeVariant(upgrade, protocol, checkLen, need, checkOk) ==
  LET dec == decodeBase64(protocol)
      data == dec.bytes
      opt == At(data, 17)
      addrOffset == MinLength + (IF opt = Undefined THEN 0 ELSE opt)
      port == At(data, addrOffset + 1) * 256 + At(data, addrOffset + 2)
      addr == parseAddress(data, addrOffset)
      rej(st, d) == [status |-> st, decoded |-> d, data |-> IF d THEN data ELSE <<>>,
                     port |-> 0, addr |-> NoAddr]
  IN IF upgrade /= "websocket" THEN rej(426, FALSE)
     ELSE IF protocol = <<>> THEN rej(400, FALSE)
     ELSE IF ~dec.ok THEN rej(400, FALSE)
     ELSE IF checkLen /\ Len(data) < MinLength THEN rej(400, TRUE)
     ELSE IF ~verifyUUID(data) THEN rej(403, TRUE)
     ELSE IF addrOffset + need > Len(data) THEN rej(400, TRUE)
     ELSE [status |-> IF addr.ok \/ ~checkOk THEN 0 ELSE 400, decoded |-> TRUE,
           data |-> data, port |-> port, addr |-> addr]

\* fetch without `if (data.length < 18)`
Handshake_NoLengthCheck(upgrade, protocol) ==
  HandshakeVariant(upgrade, protocol, FALSE, 4, TRUE)

\* fetch with `addrOffset + 3 > data.length`
Handshake_OffByOne(upgrade, protocol) ==
  HandshakeVariant(upgrade, protocol, TRUE, 3, TRUE)

\* fetch without `if (!addr.ok)`
Handshake_IgnoreOk(upgrade, protocol) ==
  HandshakeVariant(upgrade, protocol, TRUE, 4, FALSE)

(***************************************************************************)
(* fetch, its synchronous part up to the first await (src/v1.js:73-105)    *)
(***************************************************************************)
\* status 0: every check passed and connectTCP is called
Handshake(upgrade, protocol) ==
  LET dec == decodeBase64(protocol)
      data == dec.bytes
      addrOffset == MinLength + At(data, 17)
      port == At(data, addrOffset + 1) * 256 + At(data, addrOffset + 2)
      addr == parseAddress(data, addrOffset)
      rej(st, d) == [status |-> st, decoded |-> d, data |-> IF d THEN data ELSE <<>>,
                     port |-> 0, addr |-> NoAddr]
  IN IF upgrade /= "websocket" THEN rej(426, FALSE)
     ELSE IF protocol = <<>> THEN rej(400, FALSE)
     ELSE IF ~dec.ok THEN rej(400, FALSE)
     ELSE IF Len(data) < MinLength THEN rej(400, TRUE)
     ELSE IF ~verifyUUID(data) THEN rej(403, TRUE)
     ELSE IF addrOffset + 4 > Len(data) THEN rej(400, TRUE)
     ELSE [status |-> IF addr.ok THEN 0 ELSE 400, decoded |-> TRUE, data |-> data,
           port |-> port, addr |-> addr]

(***************************************************************************)
(* The requests the model is run on                                        *)
(***************************************************************************)
\* the client's encoding of a handshake: base64, url-safe alphabet when url,
\* '=' padding when padded
EncodeB64(bytes, url, padded) ==
  LET n == Len(bytes)
      b(i) == IF i <= n THEN bytes[i] ELSE 0
      nc == (n * 8 + 5) \div 6
      sx(j) ==
        LET g == 3 * ((j - 1) \div 4)
        IN CASE (j - 1) % 4 = 0 -> b(g + 1) \div 4
             [] (j - 1) % 4 = 1 -> (b(g + 1) % 4) * 16 + b(g + 2) \div 16
             [] (j - 1) % 4 = 2 -> (b(g + 2) % 16) * 4 + b(g + 3) \div 64
             [] OTHER -> b(g + 3) % 64
      ch(j) == LET c == B64[sx(j) + 1]
               IN IF url /\ c = "+" THEN "-" ELSE IF url /\ c = "/" THEN "_" ELSE c
      np == IF padded THEN (4 - (nc % 4)) % 4 ELSE 0
  IN [j \in 1..(nc + np) |-> IF j <= nc THEN ch(j) ELSE "="]

\* the credential with byte k (1..16) changed; k = 0 leaves it as configured
Cred(k) == [i \in 1..16 |-> IF i = k THEN (UUID[i] + 1) % 256 ELSE UUID[i]]

\* n bytes of address and trailing payload: a chosen first byte, then letters
\* with one byte >= 0x80 among them
Body(first, n) ==
  [i \in 1..n |-> IF i = 1 THEN first ELSE IF i = 3 THEN 233 ELSE 96 + i]

\* version, credential, options length and options, command, port 80 * 256 + 187,
\* family byte, body
MkBlob(k, optLen, atype, body) ==
  <<0>> \o Cred(k) \o <<optLen>> \o [i \in 1..optLen |-> 7] \o <<1, 80, 187, atype>> \o body

Families == {0, ATYPE_IPV4, ATYPE_DOMAIN, ATYPE_IPV6, 4}
FirstBytes == {0, 1, 2, 200}

\* handshakes for the parser: every family, every body length, with and without
\* options; every single-byte credential mismatch; every truncation of two
\* handshakes, with the configured credential and without, and of one whose
\* options length may point beyond the blob
ParseBlobs ==
  {MkBlob(0, o, a, Body(f, n)) : o \in {0, 2}, a \in Families, f \in FirstBytes, n \in 0..MaxBody}
  \cup {MkBlob(k, 0, a, Body(1, n)) : k \in 1..16, a \in {ATYPE_IPV4, ATYPE_DOMAIN}, n \in {0, 6}}
  \cup {SubSeq(MkBlob(k, 1, ATYPE_DOMAIN, Body(1, 3)), 1, n) : k \in {0, 1, 16}, n \in 0..26}
  \cup {SubSeq(MkBlob(0, 9, ATYPE_IPV4, Body(1, 6)), 1, n) : n \in 18..37}

\* header values atob rejects: a character outside the alphabet, a length of
\* 4k + 1, padding in the middle
BadTokens == {<<"A", "*", "A", "A">>, <<"A", "A", "A", "A", "A">>, <<"A", "=", "A", "A">>}

ParseRequests ==
  {[upgrade |-> "websocket", protocol |-> EncodeB64(b, TRUE, FALSE)] : b \in ParseBlobs}
  \cup {[upgrade |-> "websocket", protocol |-> EncodeB64(MkBlob(k, 0, ATYPE_DOMAIN, Body(2, n)), FALSE, TRUE)] :
          k \in {0, 5}, n \in 0..5}
  \cup {[upgrade |-> "websocket", protocol |-> t] : t \in BadTokens \cup {<<>>}}
  \cup {[upgrade |-> u, protocol |-> EncodeB64(MkBlob(0, 0, ATYPE_IPV4, Body(10, 4)), TRUE, FALSE)] :
          u \in {"", "h2c"}}

\* the requests a session is run on: two that pass every check (a domain
\* followed by two trailing bytes; options and an IPv4 address with nothing
\* after it) and one for each way fetch rejects a request
SessionBlobs ==
  {MkBlob(0, 0, ATYPE_DOMAIN, Body(1, 4)), MkBlob(0, 1, ATYPE_IPV4, Body(10, 4)),
   SubSeq(MkBlob(0, 0, ATYPE_DOMAIN, Body(1, 2)), 1, 17), MkBlob(3, 0, ATYPE_DOMAIN, Body(1, 2)),
   SubSeq(MkBlob(0, 9, ATYPE_IPV4, Body(1, 6)), 1, 24), MkBlob(0, 0, ATYPE_IPV6, Body(1, 6)),
   MkBlob(0, 0, 4, Body(1, 6))}

SessionRequests ==
  {[upgrade |-> "websocket", protocol |-> EncodeB64(b, TRUE, FALSE)] : b \in SessionBlobs}
  \cup {[upgrade |-> "websocket", protocol |-> t] : t \in {<<"A", "*", "A", "A">>, <<>>}}
  \cup {[upgrade |-> "", protocol |-> EncodeB64(MkBlob(0, 0, ATYPE_DOMAIN, Body(1, 2)), TRUE, FALSE)]}

\* what a client sends after the upgrade: event.data is an ArrayBuffer or a string
Payloads == {[binary |-> TRUE, val |-> <<1, 2>>], [binary |-> FALSE, val |-> <<104, 233>>]}

\* what the destination sends back
DestChunks == {<<0, 0, 7>>, <<9>>}

(***************************************************************************)
(* State                                                                   *)
(***************************************************************************)
VARIABLES
  request,          \* the Upgrade and Sec-WebSocket-Protocol headers
  pc,               \* where fetch is: start, direct, fallback, relaying, returned
  response,         \* the status fetch returned, 0 while it has returned none
  decoded,          \* decodeBase64 returned
  data,             \* the decoded handshake
  port,
  addr,             \* parseAddress's result, with the indices it read
  attempts,         \* the connect() calls made, in order
  tcp,              \* which attempt's socket the session relays to, 0 for none
  wsPair,           \* the WebSocketPair was created and accepted
  closed,           \* fetch's `closed`
  isFirst,          \* fetch's `isFirst`
  shutdownCalls,    \* invocations of shutdown
  escaped,          \* an exception left shutdown
  serverCloseCalls, \* invocations of server.close()
  tcpCloseCalls,    \* invocations of tcp.close()
  serverState,      \* the server end of the pair: none, open, closed
  clientState,      \* the client as the server end sees it: open, errored, closed
  nMsgs,            \* message events dispatched
  received,         \* for each message event, in order: the chunk the listener
                    \* made of event.data, and whether controller.enqueue took it
  upQueue,          \* chunks enqueued on uplink's controller and not yet read
  upState,          \* uplink: none, readable, closing (close requested), cancelled
  upPipe,           \* uplink.pipeTo: none, running, done, rejecting, failed
  tcpW,             \* tcp.writable: none, open, ended, closed, errored
  tcpWritten,       \* chunks written to tcp.writable, in order
  tcpR,             \* tcp.readable: none, open, closed, errored, cancelled
  tcpIn,            \* chunks received from the destination and not yet read
  nChunks,          \* chunks the destination has sent
  delivered,        \* chunks handed to downlink's write, in order
  downPipe,         \* tcp.readable.pipeTo: none, running, done, rejecting, failed
  clientSent        \* frames passed to server.send that it accepted, in order

handshakeVars == <<request, pc, response, decoded, data, port, addr, attempts, tcp, wsPair>>
shutdownVars == <<closed, shutdownCalls, escaped, serverCloseCalls, tcpCloseCalls,
                  serverState, tcpW, tcpR>>
clientVars == <<clientState, nMsgs, received>>
upVars == <<upQueue, upState, upPipe, tcpWritten>>
downVars == <<isFirst, tcpIn, nChunks, delivered, downPipe, clientSent>>
vars == <<handshakeVars, shutdownVars, clientVars, upVars, downVars>>

\* the state when fetch is entered with request r
InitWith(r) ==
  /\ request = r
  /\ pc = "start"
  /\ response = 0
  /\ decoded = FALSE
  /\ data = <<>>
  /\ port = 0
  /\ addr = NoAddr
  /\ attempts = <<>>
  /\ tcp = 0
  /\ wsPair = FALSE
  /\ closed = FALSE
  /\ isFirst = TRUE
  /\ shutdownCalls = 0
  /\ escaped = FALSE
  /\ serverCloseCalls = 0
  /\ tcpCloseCalls = 0
  /\ serverState = "none"
  /\ clientState = "open"
  /\ nMsgs = 0
  /\ received = <<>>
  /\ upQueue = <<>>
  /\ upState = "none"
  /\ upPipe = "none"
  /\ tcpW = "none"
  /\ tcpWritten = <<>>
  /\ tcpR = "none"
  /\ tcpIn = <<>>
  /\ nChunks = 0
  /\ delivered = <<>>
  /\ downPipe = "none"
  /\ clientSent = <<>>

Init == \E r \in SessionRequests : InitWith(r)

ParseInit == \E r \in ParseRequests : InitWith(r)

(***************************************************************************)
(* fetch up to `await connectTCP(addr.host, port)` (src/v1.js:73-105), with *)
(* connectTCP's first connect() call (src/v1.js:62)                        *)
(***************************************************************************)
FetchStart ==
  /\ pc = "start"
  /\ LET h == Handshake(request.upgrade, request.protocol)
     IN /\ decoded' = h.decoded
        /\ data' = h.data
        /\ port' = h.port
        /\ addr' = h.addr
        /\ IF h.status = 0
           THEN /\ attempts' = <<[host |-> h.addr.host, port |-> h.port]>>
                /\ pc' = "direct"
                /\ response' = 0
           ELSE /\ attempts' = <<>>
                /\ pc' = "returned"
                /\ response' = h.status
  /\ UNCHANGED <<request, tcp, wsPair>>
  /\ UNCHANGED <<shutdownVars, clientVars, upVars, downVars>>

\* shutdown without `if (closed) return`
Shutdown_NoGuard ==
  /\ shutdownCalls' = shutdownCalls + 1
  /\ escaped' = escaped
  /\ closed' = TRUE
  /\ serverCloseCalls' = serverCloseCalls + 1
  /\ tcpCloseCalls' = tcpCloseCalls + 1
  /\ \E serverThrows \in BOOLEAN :
       serverState' = IF serverThrows THEN serverState ELSE "closed"
  /\ \E tcpThrows \in BOOLEAN :
       /\ tcpW' = IF ~tcpThrows /\ tcpW = "open" THEN "closed" ELSE tcpW
       /\ tcpR' = IF ~tcpThrows /\ tcpR = "open" THEN "closed" ELSE tcpR

\* shutdown that tries again when server.close() threw, and clears `closed`
\* when it throws again so that a later call retries
Shutdown_Retry ==
  /\ shutdownCalls' = shutdownCalls + 1
  /\ escaped' = escaped
  /\ IF closed /\ serverState = "closed"
     THEN UNCHANGED <<closed, serverCloseCalls, tcpCloseCalls, serverState, tcpW, tcpR>>
     ELSE /\ serverCloseCalls' = serverCloseCalls + 1
          /\ tcpCloseCalls' = tcpCloseCalls + 1
          /\ \E serverThrows \in BOOLEAN :
               /\ serverState' = IF serverThrows THEN serverState ELSE "closed"
               /\ closed' = IF closed THEN ~serverThrows ELSE TRUE
          /\ \E tcpThrows \in BOOLEAN :
               /\ tcpW' = IF ~tcpThrows /\ tcpW = "open" THEN "closed" ELSE tcpW
               /\ tcpR' = IF ~tcpThrows /\ tcpR = "open" THEN "closed" ELSE tcpR

\* shutdown with both close calls in one try block: tcp.close() is skipped
\* when server.close() throws
Shutdown_OneTry ==
  /\ shutdownCalls' = shutdownCalls + 1
  /\ escaped' = escaped
  /\ IF closed
     THEN UNCHANGED <<closed, serverCloseCalls, tcpCloseCalls, serverState, tcpW, tcpR>>
     ELSE /\ closed' = TRUE
          /\ serverCloseCalls' = serverCloseCalls + 1
          /\ \E serverThrows \in BOOLEAN :
               /\ serverState' = IF serverThrows THEN serverState ELSE "closed"
               /\ tcpCloseCalls' = IF serverThrows THEN tcpCloseCalls ELSE tcpCloseCalls + 1
               /\ \E tcpThrows \in BOOLEAN :
                    /\ tcpW' = IF ~serverThrows /\ ~tcpThrows /\ tcpW = "open" THEN "closed" ELSE tcpW
                    /\ tcpR' = IF ~serverThrows /\ ~tcpThrows /\ tcpR = "open" THEN "closed" ELSE tcpR

(***************************************************************************)
(* shutdown (src/v1.js:115-121)                                            *)
(***************************************************************************)
\* One invocation.  server.close() and tcp.close() may each throw; each sits
\* in its own try/catch, so neither exception leaves shutdown.  tcp.close()
\* closes both of the socket's streams.
Shutdown ==
  /\ shutdownCalls' = shutdownCalls + 1
  /\ escaped' = escaped
  /\ IF closed
     THEN UNCHANGED <<closed, serverCloseCalls, tcpCloseCalls, serverState, tcpW, tcpR>>
     ELSE /\ closed' = TRUE
          /\ serverCloseCalls' = serverCloseCalls + 1
          /\ tcpCloseCalls' = tcpCloseCalls + 1
          /\ \E serverThrows \in BOOLEAN :
               serverState' = IF serverThrows THEN serverState ELSE "closed"
          /\ \E tcpThrows \in BOOLEAN :
               /\ tcpW' = IF ~tcpThrows /\ tcpW = "open" THEN "closed" ELSE tcpW
               /\ tcpR' = IF ~tcpThrows /\ tcpR = "open" THEN "closed" ELSE tcpR

(***************************************************************************)
(* connectTCP (src/v1.js:60-70) and the rest of fetch (src/v1.js:105-168)  *)
(***************************************************************************)
\* the rest of fetch with uplink's start() not enqueueing the trailing payload
StartRelay_NoTrailing(sock) ==
  /\ tcp' = sock
  /\ wsPair' = TRUE
  /\ serverState' = "open"
  /\ closed' = FALSE
  /\ upQueue' = <<>>
  /\ upState' = "readable"
  /\ upPipe' = "running"
  /\ tcpW' = "open"
  /\ isFirst' = TRUE
  /\ downPipe' = "running"
  /\ tcpR' = "open"
  /\ response' = 101
  /\ pc' = "relaying"
  /\ UNCHANGED <<request, decoded, data, port, addr, attempts>>
  /\ UNCHANGED <<shutdownCalls, escaped, serverCloseCalls, tcpCloseCalls>>
  /\ UNCHANGED <<clientVars, tcpWritten, tcpIn, nChunks, delivered, clientSent>>

\* src/v1.js:109-168 in one step: the pair, shutdown's flag, uplink's start()
\* with the trailing payload enqueued before any listener is registered, both
\* pipes started, the 101 response
StartRelay(sock) ==
  /\ tcp' = sock
  /\ wsPair' = TRUE
  /\ serverState' = "open"
  /\ closed' = FALSE
  /\ upQueue' = IF Len(data) > addr.end
                THEN <<[src |-> "handshake", bytes |-> Subarray(data, addr.end, Len(data))]>>
                ELSE <<>>
  /\ upState' = "readable"
  /\ upPipe' = "running"
  /\ tcpW' = "open"
  /\ isFirst' = TRUE
  /\ downPipe' = "running"
  /\ tcpR' = "open"
  /\ response' = 101
  /\ pc' = "relaying"
  /\ UNCHANGED <<request, decoded, data, port, addr, attempts>>
  /\ UNCHANGED <<shutdownCalls, escaped, serverCloseCalls, tcpCloseCalls>>
  /\ UNCHANGED <<clientVars, tcpWritten, tcpIn, nChunks, delivered, clientSent>>

\* the direct socket's `opened` resolves (src/v1.js:63-64)
DirectOpened ==
  /\ pc = "direct"
  /\ StartRelay(1)

\* a failed direct attempt answered by connecting to the requested host again
DirectFailed_SameHost ==
  /\ pc = "direct"
  /\ attempts' = Append(attempts, attempts[1])
  /\ pc' = "fallback"
  /\ UNCHANGED <<request, response, decoded, data, port, addr, tcp, wsPair>>
  /\ UNCHANGED <<shutdownVars, clientVars, upVars, downVars>>

\* connect() throws or `opened` rejects: the catch block calls connect() for
\* the fallback endpoint (src/v1.js:65-67)
DirectFailed ==
  /\ pc = "direct"
  /\ attempts' = Append(attempts, [host |-> PROXY_HOST, port |-> PROXY_PORT])
  /\ pc' = "fallback"
  /\ UNCHANGED <<request, response, decoded, data, port, addr, tcp, wsPair>>
  /\ UNCHANGED <<shutdownVars, clientVars, upVars, downVars>>

\* the fallback socket's `opened` resolves (src/v1.js:67-68)
FallbackOpened ==
  /\ pc = "fallback"
  /\ StartRelay(2)

\* a failed fallback answered by connecting to the fallback endpoint again
FallbackFailed_Retry ==
  /\ pc = "fallback"
  /\ Len(attempts) < 4
  /\ attempts' = Append(attempts, [host |-> PROXY_HOST, port |-> PROXY_PORT])
  /\ UNCHANGED <<request, pc, response, decoded, data, port, addr, tcp, wsPair>>
  /\ UNCHANGED <<shutdownVars, clientVars, upVars, downVars>>

\* a failed fallback answered with the pair created and a 101
FallbackFailed_Upgrade ==
  /\ pc = "fallback"
  /\ wsPair' = TRUE
  /\ response' = 101
  /\ pc' = "returned"
  /\ UNCHANGED <<request, decoded, data, port, addr, attempts, tcp>>
  /\ UNCHANGED <<shutdownVars, clientVars, upVars, downVars>>

\* the fallback fails too: connectTCP rejects and fetch returns 502
\* (src/v1.js:106)
FallbackFailed ==
  /\ pc = "fallback"
  /\ response' = 502
  /\ pc' = "returned"
  /\ UNCHANGED <<request, decoded, data, port, addr, attempts, tcp, wsPair>>
  /\ UNCHANGED <<shutdownVars, clientVars, upVars, downVars>>

(***************************************************************************)
(* uplink: WebSocket -> TCP (src/v1.js:124-146)                            *)
(***************************************************************************)
\* the chunk the 'message' listener enqueues for event.data = p
MessageChunk(p) ==
  [src |-> "client", bytes |-> IF p.binary THEN p.val ELSE Utf8Encode(p.val)]

\* a 'message' event (src/v1.js:131-140): controller.enqueue throws once the
\* stream is closing or cancelled, and the catch block calls shutdown
ClientMessage ==
  /\ pc = "relaying"
  /\ clientState = "open"
  /\ nMsgs < MaxMsgs
  /\ nMsgs' = nMsgs + 1
  /\ \E p \in Payloads :
       /\ received' = Append(received, [chunk |-> MessageChunk(p), enqueued |-> upState = "readable"])
       /\ IF upState = "readable"
          THEN /\ upQueue' = Append(upQueue, MessageChunk(p))
               /\ UNCHANGED shutdownVars
          ELSE /\ upQueue' = upQueue
               /\ Shutdown
  /\ UNCHANGED <<handshakeVars, clientState, upState, upPipe, tcpWritten, downVars>>

\* a 'close' listener that leaves uplink's controller alone
ClientClose_NoControllerClose ==
  /\ pc = "relaying"
  /\ clientState \in {"open", "errored"}
  /\ clientState' = "closed"
  /\ UNCHANGED <<handshakeVars, shutdownVars, nMsgs, received, upVars, downVars>>

\* the 'close' event (src/v1.js:141): controller.close(), whose exception on a
\* stream no longer readable is swallowed
ClientClose ==
  /\ pc = "relaying"
  /\ clientState \in {"open", "errored"}
  /\ clientState' = "closed"
  /\ upState' = IF upState = "readable" THEN "closing" ELSE upState
  /\ UNCHANGED <<handshakeVars, shutdownVars, nMsgs, received, upQueue, upPipe, tcpWritten, downVars>>

\* the 'error' event (src/v1.js:142)
ClientError ==
  /\ pc = "relaying"
  /\ clientState = "open"
  /\ clientState' = "errored"
  /\ Shutdown
  /\ UNCHANGED <<handshakeVars, nMsgs, received, upVars, downVars>>

\* a pipe that takes the newest chunk of the queue, not the oldest
UplinkForward_Newest ==
  /\ upPipe = "running"
  /\ upQueue /= <<>>
  /\ tcpW = "open"
  /\ tcpWritten' = Append(tcpWritten, upQueue[Len(upQueue)])
  /\ upQueue' = SubSeq(upQueue, 1, Len(upQueue) - 1)
  /\ UNCHANGED <<handshakeVars, shutdownVars, clientVars, upState, upPipe, downVars>>

\* pipeTo reads the next chunk and writes it to tcp.writable (src/v1.js:146)
UplinkForward ==
  /\ upPipe = "running"
  /\ upQueue /= <<>>
  /\ tcpW = "open"
  /\ tcpWritten' = Append(tcpWritten, Head(upQueue))
  /\ upQueue' = Tail(upQueue)
  /\ UNCHANGED <<handshakeVars, shutdownVars, clientVars, upState, upPipe, downVars>>

\* uplink is closed and drained: pipeTo closes tcp.writable and resolves, so
\* the catch handler of src/v1.js:146 is not called
UplinkFinish ==
  /\ upPipe = "running"
  /\ upState = "closing"
  /\ upQueue = <<>>
  /\ tcpW = "open"
  /\ tcpW' = "ended"
  /\ upPipe' = "done"
  /\ UNCHANGED <<handshakeVars, closed, shutdownCalls, escaped, serverCloseCalls,
                 tcpCloseCalls, serverState, tcpR>>
  /\ UNCHANGED <<clientVars, upQueue, upState, tcpWritten, downVars>>

\* tcp.writable is errored or closed under the pipe: pipeTo cancels uplink,
\* which calls `cancel: shutdown` (src/v1.js:144) unless uplink is already closed
UplinkCancel ==
  /\ upPipe = "running"
  /\ tcpW \in {"closed", "errored"}
  /\ upPipe' = "rejecting"
  /\ IF upState = "closing" /\ upQueue = <<>>
     THEN UNCHANGED <<shutdownVars, upState, upQueue>>
     ELSE /\ upState' = "cancelled"
          /\ upQueue' = <<>>
          /\ Shutdown
  /\ UNCHANGED <<handshakeVars, clientVars, tcpWritten, downVars>>

\* the pipe's promise rejects: .catch(shutdown) (src/v1.js:146)
UplinkRejected ==
  /\ upPipe = "rejecting"
  /\ upPipe' = "failed"
  /\ Shutdown
  /\ UNCHANGED <<handshakeVars, clientVars, upQueue, upState, tcpWritten, downVars>>

\* the destination resets the connection while tcp.writable is open
DestWriteError ==
  /\ tcpW = "open"
  /\ tcpW' = "errored"
  /\ UNCHANGED <<handshakeVars, closed, shutdownCalls, escaped, serverCloseCalls,
                 tcpCloseCalls, serverState, tcpR>>
  /\ UNCHANGED <<clientVars, upVars, downVars>>

(***************************************************************************)
(* downlink: TCP -> WebSocket (src/v1.js:149-166)                          *)
(***************************************************************************)
\* write() with the header put before every chunk
Frame_EveryChunk(first, chunk) == <<0, 0>> \o chunk

\* the frame write(chunk) passes to server.send (src/v1.js:152-161)
Frame(first, chunk) == IF first THEN <<0, 0>> \o chunk ELSE chunk

\* the destination sends a chunk
DestData ==
  /\ tcpR = "open"
  /\ nChunks < MaxChunks
  /\ nChunks' = nChunks + 1
  /\ \E c \in DestChunks : tcpIn' = Append(tcpIn, c)
  /\ UNCHANGED <<handshakeVars, shutdownVars, clientVars, upVars, isFirst, delivered,
                 downPipe, clientSent>>

\* the destination closes its side
DestEnd ==
  /\ tcpR = "open"
  /\ tcpR' = "closed"
  /\ UNCHANGED <<handshakeVars, closed, shutdownCalls, escaped, serverCloseCalls,
                 tcpCloseCalls, serverState, tcpW>>
  /\ UNCHANGED <<clientVars, upVars, downVars>>

\* reading from the destination fails
DestReadError ==
  /\ tcpR = "open"
  /\ tcpR' = "errored"
  /\ tcpIn' = <<>>
  /\ UNCHANGED <<handshakeVars, closed, shutdownCalls, escaped, serverCloseCalls,
                 tcpCloseCalls, serverState, tcpW>>
  /\ UNCHANGED <<clientVars, upVars, isFirst, nChunks, delivered, downPipe, clientSent>>

\* pipeTo reads the next chunk and calls downlink's write (src/v1.js:151-162).
\* server.send succeeds on an open pair whose client is there, throws once
\* server.close() has run, and may do either after the client has gone; a
\* throw errors downlink, and pipeTo cancels tcp.readable
DownlinkForward ==
  /\ downPipe = "running"
  /\ tcpIn /= <<>>
  /\ tcpR \in {"open", "closed"}
  /\ delivered' = Append(delivered, Head(tcpIn))
  /\ isFirst' = FALSE
  /\ \E sent \in BOOLEAN :
       /\ sent => serverState = "open"
       /\ ~sent => ~(serverState = "open" /\ clientState = "open")
       /\ IF sent
          THEN /\ clientSent' = Append(clientSent, Frame(isFirst, Head(tcpIn)))
               /\ tcpIn' = Tail(tcpIn)
               /\ UNCHANGED <<downPipe, tcpR>>
          ELSE /\ clientSent' = clientSent
               /\ tcpIn' = <<>>
               /\ downPipe' = "rejecting"
               /\ tcpR' = "cancelled"
  /\ UNCHANGED <<handshakeVars, closed, shutdownCalls, escaped, serverCloseCalls,
                 tcpCloseCalls, serverState, tcpW>>
  /\ UNCHANGED <<clientVars, upVars, nChunks>>

\* tcp.readable is closed and drained: pipeTo closes downlink, whose
\* `close: shutdown` runs (src/v1.js:163)
DownlinkClose ==
  /\ downPipe = "running"
  /\ tcpR = "closed"
  /\ tcpIn = <<>>
  /\ downPipe' = "done"
  /\ Shutdown
  /\ UNCHANGED <<handshakeVars, clientVars, upVars, isFirst, tcpIn, nChunks, delivered,
                 clientSent>>

\* tcp.readable is errored: pipeTo aborts downlink, whose `abort: shutdown`
\* runs (src/v1.js:164)
DownlinkAbort ==
  /\ downPipe = "running"
  /\ tcpR = "errored"
  /\ downPipe' = "rejecting"
  /\ Shutdown
  /\ UNCHANGED <<handshakeVars, clientVars, upVars, isFirst, tcpIn, nChunks, delivered,
                 clientSent>>

\* tcp.readable.pipeTo(downlink) with no catch handler
DownlinkRejected_NoCatch ==
  /\ downPipe = "rejecting"
  /\ downPipe' = "failed"
  /\ UNCHANGED <<handshakeVars, shutdownVars, clientVars, upVars, isFirst, tcpIn, nChunks,
                 delivered, clientSent>>

\* the pipe's promise rejects: .catch(shutdown) (src/v1.js:166)
DownlinkRejected ==
  /\ downPipe = "rejecting"
  /\ downPipe' = "failed"
  /\ Shutdown
  /\ UNCHANGED <<handshakeVars, clientVars, upVars, isFirst, tcpIn, nChunks, delivered,
                 clientSent>>

\* how often close() has been invoked on the socket of connect() call i: the
\* only close of a socket is tcp.close() in shutdown (src/v1.js:120), on the
\* socket connectTCP returned
SocketCloseCalls(i) == IF i = tcp THEN tcpCloseCalls ELSE 0

Next ==
  \/ FetchStart
  \/ DirectOpened
  \/ DirectFailed
  \/ FallbackOpened
  \/ FallbackFailed
  \/ ClientMessage
  \/ ClientClose
  \/ ClientError
  \/ UplinkForward
  \/ UplinkFinish
  \/ UplinkCancel
  \/ UplinkRejected
  \/ DestWriteError
  \/ DestData
  \/ DestEnd
  \/ DestReadError
  \/ DownlinkForward
  \/ DownlinkClose
  \/ DownlinkAbort
  \/ DownlinkRejected

Spec == Init /\ [][Next]_vars

ParseNext == FetchStart

ParseSpec == ParseInit /\ [][ParseNext]_vars

(***************************************************************************)
(* Properties                                                              *)
(***************************************************************************)
\* the session state of the design: Connecting while connectTCP is awaited,
\* Relaying once fetch has set the relay up, Closed once `closed` is set or
\* the connection could not be made
SessionState ==
  IF closed \/ response = 502 THEN "Closed"
  ELSE IF pc \in {"direct", "fallback"} THEN "Connecting"
  ELSE IF pc = "relaying" THEN "Relaying"
  ELSE "None"

\* the bytes of the handshake after the address descriptor's end
Trailing == Subarray(data, addr.end, Len(data))

\* d has bytes 1..16 and they are not the configured credential
CredMismatch(d) == Len(d) >= 17 /\ \E i \in 1..16 : d[i + 1] /= UUID[i]

\* fetch has called parseAddress: the blob passed the length, credential and
\* addrOffset + 4 <= blobLength checks
AddressParsed ==
  /\ pc /= "start"
  /\ decoded
  /\ Len(data) >= 18
  /\ \A i \in 1..16 : data[i + 1] = UUID[i]
  /\ 18 + data[18] + 4 <= Len(data)

\* the end offset section 4.2 of the design gives for family byte fam at
\* addrOffset off; a domain whose length byte is missing ends beyond the blob
DesignEnd(d, off, fam) ==
  IF fam = 1 THEN off + 4 + 4
  ELSE IF fam = 3 THEN off + 4 + 16
  ELSE IF off + 4 < Len(d) THEN off + 4 + 1 + d[off + 5]
  ELSE Len(d) + 1

\* C1: however often and from whichever call sites shutdown is invoked, no
\* exception leaves it, only the first invocation has effect, and close is
\* invoked exactly once on the client-facing channel and exactly once on the
\* destination socket.
C1_ShutdownIdempotent ==
  /\ ~escaped
  /\ closed = (shutdownCalls > 0)
  /\ serverCloseCalls = (IF shutdownCalls > 0 THEN 1 ELSE 0)
  /\ tcpCloseCalls = (IF shutdownCalls > 0 THEN 1 ELSE 0)

\* shutdown has been invoked from both directions, by both pipes' catch
\* handlers among others, and each channel was closed once
C1_Witness ==
  /\ shutdownCalls >= 4
  /\ upPipe = "failed"
  /\ downPipe = "failed"
  /\ serverCloseCalls = 1
  /\ tcpCloseCalls = 1

\* C2: when the handshake has bytes beyond the address descriptor's end, the
\* first chunk written to the destination is those bytes, so every client
\* message written comes after them.
C2_TrailingFirst ==
  (pc = "relaying" /\ Len(data) > addr.end) =>
    \A i \in 1..Len(tcpWritten) :
      IF i = 1
      THEN tcpWritten[i] = [src |-> "handshake", bytes |-> Trailing]
      ELSE tcpWritten[i].src = "client"

\* the trailing payload and then a client message have reached the destination
C2_Witness ==
  /\ Len(data) > addr.end
  /\ Len(tcpWritten) >= 2
  /\ tcpWritten[1].src = "handshake"
  /\ tcpWritten[1].bytes = Trailing
  /\ tcpWritten[2].src = "client"

\* C3: the first frame sent to the client is 0x00 0x00 followed by the first
\* chunk received from the destination, and every later frame is the
\* corresponding received chunk, with nothing added.
C3_HeaderOnce ==
  /\ Len(clientSent) <= Len(delivered)
  /\ \A i \in 1..Len(clientSent) :
       clientSent[i] = (IF i = 1 THEN <<0, 0>> \o delivered[1] ELSE delivered[i])

\* two frames were sent to the client while client messages were arriving
C3_Witness ==
  /\ Len(clientSent) = 2
  /\ clientSent[1] = <<0, 0>> \o delivered[1]
  /\ clientSent[2] = delivered[2]
  /\ nMsgs > 0

\* C4: when the direct and the fallback attempt both fail, fetch returns 502
\* once, no third connection is attempted and no relay is set up.
C4_TwoAttemptsThen502 ==
  /\ Len(attempts) <= 2
  /\ (pc = "returned" /\ Len(attempts) = 2) => response = 502
  /\ response = 502 =>
       /\ pc = "returned"
       /\ Len(attempts) = 2
       /\ attempts[2] = [host |-> PROXY_HOST, port |-> PROXY_PORT]
       /\ SessionState = "Closed"
       /\ tcp = 0
       /\ upPipe = "none"
       /\ downPipe = "none"

\* both attempts were made and failed
C4_Witness == response = 502 /\ Len(attempts) = 2 /\ pc = "returned"

\* C5 as stated: every decoded blob whose bytes 1..16 do not match the
\* credential is answered 403, whatever its length.
C5_Original ==
  (pc /= "start" /\ decoded /\ CredMismatch(data)) => response = 403

\* C5 as amended: every blob of at least 18 bytes whose bytes 1..16 do not
\* match the credential is answered 403, whatever its options length and
\* address section.
C5_MismatchIs403 ==
  (pc /= "start" /\ decoded /\ Len(data) >= 18 /\ CredMismatch(data)) => response = 403

\* a blob that differs from the credential in its last byte only, and whose
\* options length points beyond the blob, was answered 403
C5_Witness ==
  /\ response = 403
  /\ Len(data) >= 18
  /\ \A i \in 1..15 : data[i + 1] = UUID[i]
  /\ data[17] /= UUID[16]
  /\ 18 + data[18] + 4 > Len(data)

\* C6 as stated, for a normal client close: once the 'close' listener has run,
\* uplink's pipe has completed and nothing is left for downlink to forward,
\* the session is Closed, with close invoked on both channels.
C6_ClientCloseEndsSession ==
  (pc = "relaying" /\ clientState = "closed" /\ upPipe = "done"
     /\ downPipe = "running" /\ tcpR = "open" /\ tcpIn = <<>>) =>
    (closed /\ serverCloseCalls = 1 /\ tcpCloseCalls = 1)

\* C7: once `closed` is true it stays true, and the session stays Closed.
C7_ClosedIsTerminal ==
  [][(SessionState = "Closed" => SessionState' = "Closed") /\ (closed => closed')]_vars

\* the session is Closed, shutdown has been invoked again, and events kept
\* arriving after it closed
C7_Witness ==
  /\ closed
  /\ shutdownCalls >= 2
  /\ nMsgs > 0
  /\ clientState = "closed"
  /\ tcpR /= "open"

\* C8: the pair exists only with an open destination socket and a 101; on
\* every rejection no pair was created and no pipe was started.
C8_NoPartialSuccess ==
  /\ wsPair <=> response = 101
  /\ wsPair => (tcp \in 1..Len(attempts) /\ pc = "relaying")
  /\ response \in {426, 400, 403, 502} =>
       (~wsPair /\ serverState = "none" /\ upPipe = "none" /\ downPipe = "none")
  /\ pc \in {"start", "direct", "fallback"} =>
       (~wsPair /\ upPipe = "none" /\ downPipe = "none")

\* the session relays over the fallback socket
C8_Witness == response = 101 /\ wsPair /\ tcp = 2 /\ upPipe = "running"

\* C9 as stated: parseAddress reads no byte at an index >= the blob's length.
C9_NoReadPastEnd ==
  AddressParsed => \A i \in addr.reads : i < Len(data)

\* C10: parseAddress reports ok exactly when the family byte is IPv4, Domain
\* or IPv6 and the end offset is within the blob, the end it then reports is
\* that offset, and a request whose descriptor is not ok is answered 400.
C10_ValidIffInBounds ==
  AddressParsed =>
    LET off == 18 + data[18]
        fam == data[off + 4]
    IN /\ addr.ok <=> (fam \in {1, 2, 3} /\ DesignEnd(data, off, fam) <= Len(data))
       /\ addr.ok => addr.end = DesignEnd(data, off, fam)
       /\ ~addr.ok => response = 400
       /\ addr.ok => response = 0

\* an IPv4 address cut short was reported not ok and answered 400
C10_Witness ==
  /\ AddressParsed
  /\ data[18 + data[18] + 4] = 1
  /\ 18 + data[18] + 8 > Len(data)
  /\ ~addr.ok
  /\ response = 400

\* C11: every decoded blob shorter than 18 bytes is answered 400, and nothing
\* beyond the length check is done with it.
C11_ShortIs400 ==
  (pc /= "start" /\ decoded /\ Len(data) < 18) =>
    (response = 400 /\ addr = NoAddr /\ attempts = <<>>)

\* a 17-byte blob, wrong in its credential, was answered 400
C11_Witness ==
  /\ pc = "returned"
  /\ decoded
  /\ Len(data) = 17
  /\ CredMismatch(data)
  /\ response = 400

\* the blob passed the length and credential checks
CredentialPassed ==
  /\ pc /= "start"
  /\ decoded
  /\ Len(data) >= 18
  /\ \A i \in 1..16 : data[i + 1] = UUID[i]

\* C12: a blob of at least 18 bytes with the configured credential whose
\* addrOffset + 4 exceeds its length is answered 400 before the port is read
\* or parseAddress is called; whenever they are read, the command, port and
\* family bytes lie inside the blob.
C12_HeaderInBounds ==
  CredentialPassed =>
    LET addrOffset == 18 + data[18]
    IN /\ addrOffset + 4 > Len(data) =>
            (response = 400 /\ port = 0 /\ addr = NoAddr /\ attempts = <<>>)
       /\ addr.reads /= {} => addrOffset + 3 < Len(data)

\* the options length of a blob with the right credential points so far that
\* only three of the four header bytes are there, and it was answered 400
C12_Witness ==
  /\ CredentialPassed
  /\ data[18] > 0
  /\ 18 + data[18] + 3 = Len(data)
  /\ response = 400

\* fetch accepted a domain address: parseAddress took the domain branch and
\* reported ok
DomainAccepted == AddressParsed /\ data[18 + data[18] + 4] = 2 /\ addr.ok

\* the bytes after the domain's length byte, as many as it says
DomainBytes ==
  LET off == 18 + data[18]
  IN SubSeq(data, off + 6, off + 5 + data[off + 5])

\* C13 as stated: for a valid domain address, end is addrOffset + 5 + L and
\* host holds exactly the L bytes after the length byte, so that encoding host
\* gives those bytes back.
C13_Original ==
  DomainAccepted =>
    /\ addr.end = 18 + data[18] + 5 + data[18 + data[18] + 5]
    /\ Utf8Encode(addr.host) = DomainBytes

\* C13 as amended: for a valid domain address, end is addrOffset + 5 + L and
\* host is the UTF-8 decoding of exactly the L bytes after the length byte: a
\* byte below 0x80 is its own code point, an ill-formed byte becomes U+FFFD;
\* host gives the L bytes back when all of them are below 0x80.
C13_DomainDecoded ==
  DomainAccepted =>
    /\ addr.end = 18 + data[18] + 5 + data[18 + data[18] + 5]
    /\ Len(addr.host) = Len(DomainBytes)
    /\ \A i \in 1..Len(DomainBytes) :
         addr.host[i] = (IF DomainBytes[i] < 128 THEN DomainBytes[i] ELSE 65533)
    /\ (\A i \in 1..Len(DomainBytes) : DomainBytes[i] < 128) =>
         Utf8Encode(addr.host) = DomainBytes

\* a two-byte domain after two option bytes was accepted, its second byte 0xE9
\* decoded to U+FFFD, with trailing payload after it
C13_Witness ==
  /\ DomainAccepted
  /\ data[18] = 2
  /\ DomainBytes = <<98, 233>>
  /\ addr.host = <<98, 65533>>
  /\ addr.end = 27
  /\ Len(data) > addr.end

\* the checks of fetch, each stated on the request and the decoded blob
AllChecksPassed ==
  /\ request.upgrade = "websocket"
  /\ request.protocol /= <<>>
  /\ decoded
  /\ Len(data) >= 18
  /\ \A i \in 1..16 : data[i + 1] = UUID[i]
  /\ 18 + data[18] + 4 <= Len(data)
  /\ LET off == 18 + data[18]
         fam == data[off + 4]
     IN fam \in {1, 2, 3} /\ DesignEnd(data, off, fam) <= Len(data)

\* C18: connect() is called only for a request that passed every check, and
\* then first for the host and port of the handshake; a request answered 426,
\* 400 or 403 made no connection attempt.
C18_ConnectOnlyWhenValid ==
  /\ attempts /= <<>> =>
       (AllChecksPassed /\ addr.ok /\ attempts[1] = [host |-> addr.host, port |-> port])
  /\ response \in {426, 400, 403} => attempts = <<>>
  /\ (pc /= "start" /\ AllChecksPassed) => attempts /= <<>>

\* a connection to an IPv6 destination, port 80 * 256 + 187, is being attempted
C18_Witness ==
  /\ pc = "direct"
  /\ Len(attempts) = 1
  /\ AllChecksPassed
  /\ data[18 + data[18] + 4] = 3
  /\ attempts[1].port = 20667

\* what uplink is to carry: the trailing payload, if any, then the chunk of
\* every message event in the order of the events
UplinkExpected ==
  (IF Len(data) > addr.end THEN <<[src |-> "handshake", bytes |-> Trailing]>> ELSE <<>>)
  \o [i \in 1..Len(received) |-> received[i].chunk]

IsPrefix(a, b) == Len(a) <= Len(b) /\ a = SubSeq(b, 1, Len(a))

\* C14 as stated: once the client has closed normally and the write side of
\* the socket is closed, no chunk is left in uplink's queue. The only call of
\* shutdown considered is the one made when the destination ended its data, so
\* the client raised no error and no write failed.
C14_Original ==
  (/\ pc = "relaying"
   /\ clientState = "closed"
   /\ shutdownCalls = 1
   /\ downPipe = "done"
   /\ tcpW \in {"ended", "closed"}) =>
    upQueue = <<>>

\* C14: after a normal client close, uplink's pipe closes tcp.writable, and
\* only once everything queued has been written: either that has happened, or
\* tcp.writable is open and the pipe has a step to take (forward the next
\* chunk, or close), or shutdown or a failed write took the write side down
\* first, whatever was still queued.
C14_CloseAfterDrain ==
  /\ (pc = "relaying" /\ clientState = "closed") =>
       \/ tcpW = "ended" /\ upPipe = "done"
       \/ tcpW = "open" /\ upState = "closing" /\ ENABLED (UplinkForward \/ UplinkFinish)
       \/ tcpW \in {"closed", "errored"}
  /\ tcpW = "ended" =>
       (clientState = "closed" /\ upQueue = <<>> /\ tcpWritten = UplinkExpected)

\* the client sent a message and closed; the trailing payload and the message
\* were written, then the write side was closed, with no shutdown
C14_Witness ==
  /\ clientState = "closed"
  /\ tcpW = "ended"
  /\ Len(tcpWritten) >= 2
  /\ tcpWritten[1].src = "handshake"
  /\ shutdownCalls = 0

\* controller.enqueue threw for some message event
EnqueueFailed == \E i \in 1..Len(received) : ~received[i].enqueued

\* C15: a failed enqueue has invoked shutdown; after a failed write to the
\* destination, a failed send to the client, or an error or the end of the
\* destination's data, shutdown has been invoked or the step of the pipe that
\* leads to it is enabled; once a pipe has failed, or downlink's has finished,
\* close has been invoked on both channels.
C15_ErrorsReachShutdown ==
  LET down == closed /\ serverCloseCalls = 1 /\ tcpCloseCalls = 1
  IN /\ EnqueueFailed => down
     /\ tcpW = "errored" => (down \/ ENABLED (UplinkCancel \/ UplinkRejected))
     /\ tcpR \in {"errored", "closed"} =>
          (down \/ ENABLED (DownlinkForward \/ DownlinkClose \/ DownlinkAbort \/ DownlinkRejected))
     /\ tcpR = "cancelled" => (down \/ ENABLED DownlinkRejected)
     /\ upPipe = "failed" => down
     /\ downPipe \in {"done", "failed"} => down

\* server.send threw after a normal client close, with no other failure, and
\* the pipe's catch handler closed both channels
C15_Witness ==
  /\ tcpR = "cancelled"
  /\ downPipe = "failed"
  /\ clientState = "closed"
  /\ shutdownCalls = 1
  /\ serverCloseCalls = 1
  /\ tcpCloseCalls = 1

\* C16: the first connect() is to the requested host and port; a second one
\* is made only when the first has failed, only once, and to the configured
\* fallback endpoint; the session's socket is the direct one unless the
\* direct attempt failed.
C16_FallbackOnlyAfterFailure ==
  /\ Len(attempts) <= 2
  /\ attempts /= <<>> => attempts[1] = [host |-> addr.host, port |-> port]
  /\ pc = "direct" => Len(attempts) = 1
  /\ Len(attempts) = 2 <=> (pc = "fallback" \/ tcp = 2 \/ response = 502)
  /\ Len(attempts) = 2 => attempts[2] = [host |-> PROXY_HOST, port |-> PROXY_PORT]
  /\ pc = "relaying" => (tcp = Len(attempts) /\ tcp \in {1, 2})

\* the direct attempt failed and the session relays over the socket to the
\* fallback endpoint, which is not the requested one
C16_Witness ==
  /\ pc = "relaying"
  /\ tcp = 2
  /\ attempts[2] = [host |-> PROXY_HOST, port |-> PROXY_PORT]
  /\ attempts[1] /= attempts[2]

\* C17: once shutdown has run, close has been invoked on the pair's server end
\* and on the socket, whether or not either call threw, and no exception has
\* left shutdown.
C17_BothClosedDespiteThrow ==
  /\ ~escaped
  /\ closed => (serverCloseCalls = 1 /\ tcpCloseCalls = 1)
  /\ serverCloseCalls = tcpCloseCalls

\* server.close() threw, leaving the server end open, and tcp.close() was
\* still invoked and closed the socket's streams
C17_Witness ==
  /\ closed
  /\ serverCloseCalls = 1
  /\ serverState = "open"
  /\ tcpCloseCalls = 1
  /\ tcpW = "closed"
  /\ tcpR = "closed"

\* C19: what has been written to the destination is a prefix of the trailing
\* payload followed by the client's messages in the order received, and while
\* uplink has not been cancelled, what was written and what is queued are
\* together exactly that sequence.
C19_UplinkInOrder ==
  pc = "relaying" =>
    /\ IsPrefix(tcpWritten, UplinkExpected)
    /\ upState \in {"readable", "closing"} => tcpWritten \o upQueue = UplinkExpected

\* the trailing payload and two client messages, a binary and a text one,
\* were written in the order received
C19_Witness ==
  /\ Len(tcpWritten) = 3
  /\ tcpWritten = UplinkExpected
  /\ tcpWritten[2] /= tcpWritten[3]
  /\ tcpWritten[3].bytes = <<104, 195, 169>>

\* C20 as stated: the direct socket has been closed once the fallback is being
\* attempted, both sockets have been closed when 502 is returned, and once the
\* session is closed every socket made for the request has been closed.
C20_NoSocketLeak ==
  /\ pc = "fallback" => SocketCloseCalls(1) >= 1
  /\ response = 502 => \A i \in 1..Len(attempts) : SocketCloseCalls(i) >= 1
  /\ (pc = "relaying" /\ closed) => \A i \in 1..Len(attempts) : SocketCloseCalls(i) >= 1

====
